---------------------------- MODULE Spec2Model ----------------------------
(***************************************************************************)
(* Model of the DMXUSB decoder (CIRCUITPY_disc/dmxusb/dmxusb.py): the      *)
(* frame parser state machine, the idle timeout and the console           *)
(* passthrough of update(), the message dispatcher and the message         *)
(* encoder, driven by a host that puts byte messages on the serial line    *)
(* and a user who types at the console.                                    *)
(***************************************************************************)
EXTENDS Integers, Sequences, FiniteSets, TLC

VARIABLES
    mode,           \* self._mode: the active device profile
    universes_out,  \* self._universes_out
    debug,          \* self._debug
    dmx,            \* the parser fields of the DMXUSB instance (a record)
    idle,           \* time.monotonic() - self._last_action, in ms
    crashed,        \* the exception that left update() uncaught, or "none"
    rxq,            \* bytes waiting in the UART receive buffer (in_waiting)
    console,        \* bytes waiting in usb_cdc.console (in_waiting)
    tx,             \* uart.write() calls since the host began its message
    calls,          \* callback_dmxin() calls since the host began its message
    wire,           \* bytes of the host's message not yet in the UART buffer
    msg,            \* the message the host sent last (history)
    snap,           \* the parser fields when the host sent msg (history)
    intact,         \* since msg was sent no update() found the line silent
                    \* for longer than the threshold
    split,          \* msg reached the UART in more than one piece
    sent,           \* how many messages the host has sent
    enc             \* the (label, payload) handed to the encoder, or NoEnc

vars == <<mode, universes_out, debug, dmx, idle, crashed, rxq, console,
          tx, calls, wire, msg, snap, intact, split, sent, enc>>

-----------------------------------------------------------------------------
(* Program constants *)

STATE_START == 0
STATE_LABEL == 1
STATE_LEN_LSB == 2
STATE_LEN_MSB == 3
STATE_DATA == 4
STATE_END == 5

MSG_STARTMARK == 126
MSG_ENDMARK == 231

LABEL_UNDEFINED == -1
LABEL_ESTA_ID_REQUEST == 77
LABEL_DEVICE_ID_REQUEST == 78
LABEL_SERIAL_NUMBER_REQUEST == 10
LABEL_WIDGET_PARAMETER_REQUEST == 3
LABEL_WIDGET_PARAMETER_EXTENDED_REQUEST == 53
LABEL_DMX_DATA == 6
LABEL_DMX_DATA2 == 100

\* the keys of LABEL_Lookup, each with the name the debug output prints
LABEL_Lookup ==
    (LABEL_UNDEFINED :> "LABEL_UNDEFINED")
        @@ (LABEL_ESTA_ID_REQUEST :> "LABEL_ESTA_ID_REQUEST")
        @@ (LABEL_DEVICE_ID_REQUEST :> "LABEL_DEVICE_ID_REQUEST")
        @@ (LABEL_SERIAL_NUMBER_REQUEST :> "LABEL_SERIAL_NUMBER_REQUEST")
        @@ (LABEL_WIDGET_PARAMETER_REQUEST :> "LABEL_WIDGET_PARAMETER_REQUEST")
        @@ (LABEL_WIDGET_PARAMETER_EXTENDED_REQUEST
                :> "LABEL_WIDGET_PARAMETER_EXTENDED_REQUEST")
        @@ (LABEL_DMX_DATA :> "LABEL_DMX_DATA")
        @@ (LABEL_DMX_DATA2 :> "LABEL_DMX_DATA2")

MAX_CHANNELS == 512

\* b"\r", the console byte update() does not pass on
CARRIAGE_RETURN == 13

\* update(): time.monotonic() - self._last_action > 0.1 (seconds), in ms
TIMEOUT_MS == 100

\* self._universes_in = 0
UNIVERSES_IN == 0

-----------------------------------------------------------------------------
(* Bounds of the model *)

\* the clock advances in steps of TickMs milliseconds
TickMs == 100
\* the constructor's universes_out argument ranges over 1..MaxUniversesOut
MaxUniversesOut == 1
\* the longest payload the host sends
MaxPayload == 600
\* the host sends at most MaxMessages messages
MaxMessages == 2
\* the host may split a message byte by byte within its first MaxSplitPos bytes
MaxSplitPos == 8
\* under SpecLong the host may hold back up to MaxTail bytes of a message
MaxTail == 2

-----------------------------------------------------------------------------
(* Device profiles *)

\* the ASCII codes of b"DMXUSB"
NAME_DMXUSB == <<68, 77, 88, 85, 83, 66>>
\* b"emulated Ultra DMX Micro"
NAME_MICRO == <<101, 109, 117, 108, 97, 116, 101, 100, 32, 85, 108, 116,
                114, 97, 32, 68, 77, 88, 32, 77, 105, 99, 114, 111>>
\* b"emulated DMXKing UltraDMXPro"
NAME_PRO == <<101, 109, 117, 108, 97, 116, 101, 100, 32, 68, 77, 88, 75,
              105, 110, 103, 32, 85, 108, 116, 114, 97, 68, 77, 88, 80,
              114, 111>>

DEVICE_EMULATED_ULTRA_DMX_MICRO ==
    [NAME |-> NAME_MICRO, ESTA_ID |-> 27243, DEVICE_ID |-> 3,
     UNIVERSE_OUT |-> 1, UNIVERSE_IN |-> 0]
DEVICE_EMULATED_DMXKING_UltraDMXPro ==
    [NAME |-> NAME_PRO, ESTA_ID |-> 27243, DEVICE_ID |-> 2,
     UNIVERSE_OUT |-> 2, UNIVERSE_IN |-> 0]
DEVICE_DMXUSB ==
    [NAME |-> NAME_DMXUSB, ESTA_ID |-> 32759, DEVICE_ID |-> 66,
     UNIVERSE_OUT |-> 3, UNIVERSE_IN |-> 0]

Modes == {DEVICE_EMULATED_ULTRA_DMX_MICRO,
          DEVICE_EMULATED_DMXKING_UltraDMXPro,
          DEVICE_DMXUSB}

\* bytes(microcontroller.cpu.uid[2:]): four device-unique bytes
SERIAL_NUMBER == <<170, 187, 204, 221>>

Byte == 0..255

\* divmod(x, 0x100) as the pair (quotient, remainder)
DivMod256(x) == <<x \div 256, x % 256>>

-----------------------------------------------------------------------------
(* The decoder's fields and the record threaded through one update() call *)

ZeroBuffer == [i \in 0..(MAX_CHANNELS - 1) |-> 0]

\* _buffer_data_clear
BufferDataClear(d) ==
    [d EXCEPT !.buffer_data_index = 0, !.buffer_data = ZeroBuffer]

\* _reset_receive_statemanschine (self._last_action is the variable idle)
ResetReceiveStatemachine(d) ==
    BufferDataClear([d EXCEPT !.state = STATE_START,
                              !.label = LABEL_UNDEFINED,
                              !.msg_length = 0])

\* the fields __init__ leaves: _data_rest_count is first assigned in
\* STATE_LEN_MSB and is never read before that
InitDmx ==
    ResetReceiveStatemachine(
        [state |-> STATE_START, label |-> LABEL_UNDEFINED, msg_length |-> 0,
         data_rest_count |-> 0, buffer_data |-> ZeroBuffer,
         buffer_data_index |-> 0])

\* a run of the decoder: its fields, what it wrote and called, the exception
\* it raised and the number of bytes it read from the UART
Machine(d) ==
    [dev |-> d, tx |-> <<>>, calls |-> <<>>, err |-> "none", nread |-> 0]

Raise(m, e) == [m EXCEPT !.err = e]

-----------------------------------------------------------------------------
(* Message encoder and identity replies *)

\* bytearray(_data) accepts only values in range(0, 256)
AllBytes(s) == \A i \in 1..Len(s) : s[i] \in Byte

\* the four header values _send_message builds: len & 0xFF, (len + 1) >> 8
MessageHeader(label, data) ==
    <<MSG_STARTMARK, label, Len(data) % 256, (Len(data) + 1) \div 256>>

\* the list _send_message hands to bytearray()
MessageBytes(label, data) ==
    MessageHeader(label, data) \o data \o <<MSG_ENDMARK>>

\* _send_message: one uart.write() of the framed message; with debug set
\* the print that follows the write looks the label up in LABEL_Lookup and
\* raises KeyError for a label that is not a key
SendMessage(m, label, data) ==
    IF ~AllBytes(MessageBytes(label, data))
    THEN Raise(m, "ValueError")
    ELSE LET w == [m EXCEPT !.tx = Append(@, MessageBytes(label, data))] IN
         IF debug /\ label \notin DOMAIN LABEL_Lookup
         THEN Raise(w, "KeyError")
         ELSE w

\* data.extend(bytes(divmod(id, 0x100)))
IdBytes(id) == DivMod256(id)

\* _send_ESTA_ID
SendESTAID(m) ==
    SendMessage(m, LABEL_ESTA_ID_REQUEST,
                IdBytes(mode.ESTA_ID) \o NAME_DMXUSB)

\* _send_DEVICE_ID
SendDEVICEID(m) ==
    SendMessage(m, LABEL_DEVICE_ID_REQUEST,
                IdBytes(mode.DEVICE_ID) \o mode.NAME)

\* _send_SERIAL_NUMBER
SendSERIALNUMBER(m) ==
    SendMessage(m, LABEL_SERIAL_NUMBER_REQUEST, SERIAL_NUMBER)

\* _send_WIDGET_PARAMETER: firmware 3, 0; break 9; mark after break 1; rate 40
SendWIDGETPARAMETER(m) ==
    SendMessage(m, LABEL_WIDGET_PARAMETER_REQUEST, <<3, 0, 9, 1, 40>>)

\* _send_WIDGET_PARAMETER_EXTENDED
SendWIDGETPARAMETEREXTENDED(m) ==
    SendMessage(m, LABEL_WIDGET_PARAMETER_EXTENDED_REQUEST,
                <<universes_out, UNIVERSES_IN>>)

-----------------------------------------------------------------------------
(* Dispatcher *)

\* self._callback_dmxin(universe=u, data=self._buffer_data)
Callback(m, u) ==
    [m EXCEPT !.calls = Append(@, [universe |-> u,
                                   data |-> m.dev.buffer_data])]

\* the loop over the profile's UNIVERSE_OUT instead of self._universes_out
CallbackAllOfProfile(m) ==
    [m EXCEPT !.calls = @ \o [i \in 1..mode.UNIVERSE_OUT |->
                                [universe |-> i - 1,
                                 data |-> m.dev.buffer_data]]]

\* for universe_index in range(self._universes_out): callback
CallbackAll(m) ==
    [m EXCEPT !.calls = @ \o [i \in 1..universes_out |->
                                [universe |-> i - 1,
                                 data |-> m.dev.buffer_data]]]

\* _handle_DMX_data_received
HandleDMXDataReceived(m) ==
    LET l == m.dev.label IN
    IF l = LABEL_DMX_DATA /\ mode = DEVICE_EMULATED_ULTRA_DMX_MICRO
    THEN Callback(m, 0)
    ELSE IF l = LABEL_DMX_DATA /\ mode = DEVICE_EMULATED_DMXKING_UltraDMXPro
    THEN Callback(Callback(m, 0), 1)
    ELSE IF l = LABEL_DMX_DATA /\ mode = DEVICE_DMXUSB
    THEN CallbackAll(m)
    ELSE IF l = LABEL_DMX_DATA2 /\ mode = DEVICE_EMULATED_DMXKING_UltraDMXPro
    THEN Callback(m, 0)
    ELSE IF l = LABEL_DMX_DATA2 + 1
            /\ mode = DEVICE_EMULATED_DMXKING_UltraDMXPro
    THEN Callback(m, 1)
    ELSE IF mode = DEVICE_DMXUSB
    THEN Callback(m, l - LABEL_DMX_DATA2)
    ELSE m

\* _label_is_DMX_receive: "True", "False", or the AttributeError raised by
\* reading self.universes_out, an attribute the class never sets (the
\* constructor stores self._universes_out); `or` and `and` short-circuit
LabelIsDMXReceive(l) ==
    IF l = LABEL_DMX_DATA THEN "True"
    ELSE IF l >= LABEL_DMX_DATA2 THEN "AttributeError"
    ELSE "False"

\* _parse without the branch for the serial-number request
ParseWithoutSerial(m) ==
    LET l == m.dev.label IN
    IF l = LABEL_ESTA_ID_REQUEST THEN SendESTAID(m)
    ELSE IF l = LABEL_DEVICE_ID_REQUEST THEN SendDEVICEID(m)
    ELSE IF l = LABEL_WIDGET_PARAMETER_REQUEST THEN SendWIDGETPARAMETER(m)
    ELSE IF l = LABEL_WIDGET_PARAMETER_EXTENDED_REQUEST
    THEN SendWIDGETPARAMETEREXTENDED(m)
    ELSE IF LabelIsDMXReceive(l) = "AttributeError"
    THEN Raise(m, "AttributeError")
    ELSE IF LabelIsDMXReceive(l) = "True" THEN HandleDMXDataReceived(m)
    ELSE m

\* _parse
Parse(m) ==
    LET l == m.dev.label IN
    IF l = LABEL_ESTA_ID_REQUEST THEN SendESTAID(m)
    ELSE IF l = LABEL_DEVICE_ID_REQUEST THEN SendDEVICEID(m)
    ELSE IF l = LABEL_SERIAL_NUMBER_REQUEST THEN SendSERIALNUMBER(m)
    ELSE IF l = LABEL_WIDGET_PARAMETER_REQUEST THEN SendWIDGETPARAMETER(m)
    ELSE IF l = LABEL_WIDGET_PARAMETER_EXTENDED_REQUEST
    THEN SendWIDGETPARAMETEREXTENDED(m)
    ELSE IF LabelIsDMXReceive(l) = "AttributeError"
    THEN Raise(m, "AttributeError")
    ELSE IF LabelIsDMXReceive(l) = "True" THEN HandleDMXDataReceived(m)
    ELSE m

-----------------------------------------------------------------------------
(* Frame parser: _receive_and_parse, one operator per state *)

SetState(m, s) == [m EXCEPT !.dev.state = s]

\* StepStart with the comparison inverted: any byte but the start mark
\* opens a frame
StepStartInverted(m, b) ==
    IF b # MSG_STARTMARK THEN SetState(m, STATE_LABEL) ELSE m

\* STATE_START
StepStart(m, b) ==
    IF b = MSG_STARTMARK THEN SetState(m, STATE_LABEL) ELSE m

\* STATE_LABEL: an exception of _label_is_DMX_receive leaves the label
\* stored and the state unchanged
StepLabel(m, b) ==
    LET m1 == [m EXCEPT !.dev.label = b] IN
    IF LabelIsDMXReceive(b) = "AttributeError"
    THEN Raise(m1, "AttributeError")
    ELSE IF LabelIsDMXReceive(b) = "True"
    THEN SetState([m1 EXCEPT !.dev = BufferDataClear(@)], STATE_LEN_LSB)
    ELSE SetState(m1, STATE_LEN_LSB)

\* STATE_LEN_LSB
StepLenLsb(m, b) ==
    SetState([m EXCEPT !.dev.msg_length = b], STATE_LEN_MSB)

\* STATE_LEN_MSB: msg_length |= b << 8, where msg_length is the low byte
StepLenMsb(m, b) ==
    LET len == m.dev.msg_length + b * 256
        m1 == [m EXCEPT !.dev.msg_length = len,
                        !.dev.data_rest_count = len]
    IN  SetState(m1, IF len > 0 THEN STATE_DATA ELSE STATE_END)

\* StoreData with the capacity test off by one (index < len(buffer)): the
\* last slot is never written
StoreDataShortByOne(d, b) ==
    IF d.buffer_data_index < MAX_CHANNELS
    THEN [d EXCEPT !.buffer_data =
                       IF d.buffer_data_index > 0
                       THEN [@ EXCEPT ![d.buffer_data_index - 1] = b]
                       ELSE @,
                   !.buffer_data_index = @ + 1]
    ELSE d

\* STATE_DATA: the store into the buffer and the index increment
StoreData(d, b) ==
    IF d.buffer_data_index <= MAX_CHANNELS
    THEN [d EXCEPT !.buffer_data =
                       IF d.buffer_data_index > 0
                       THEN [@ EXCEPT ![d.buffer_data_index - 1] = b]
                       ELSE @,
                   !.buffer_data_index = @ + 1]
    ELSE d

\* STATE_DATA with the remaining count decreased only for a byte that
\* advanced the write index
StepDataCountsStored(m, b) ==
    LET d1 == StoreData(m.dev, b)
        d2 == IF d1.buffer_data_index # m.dev.buffer_data_index
              THEN [d1 EXCEPT !.data_rest_count = @ - 1]
              ELSE d1
    IN  [m EXCEPT !.dev = IF d2.data_rest_count = 0
                           THEN [d2 EXCEPT !.state = STATE_END]
                           ELSE d2]

\* STATE_DATA
StepData(m, b) ==
    LET d1 == StoreData(m.dev, b)
        d2 == [d1 EXCEPT !.data_rest_count = @ - 1]
    IN  [m EXCEPT !.dev = IF d2.data_rest_count = 0
                           THEN [d2 EXCEPT !.state = STATE_END]
                           ELSE d2]

\* STATE_END: any byte but the end mark is passed over, the state stays
StepEnd(m, b) ==
    IF b = MSG_ENDMARK
    THEN LET p == Parse(m) IN
         IF p.err = "none" THEN SetState(p, STATE_START) ELSE p
    ELSE m

\* _receive_and_parse
ReceiveAndParse(m, b) ==
    CASE m.dev.state = STATE_START -> StepStart(m, b)
      [] m.dev.state = STATE_LABEL -> StepLabel(m, b)
      [] m.dev.state = STATE_LEN_LSB -> StepLenLsb(m, b)
      [] m.dev.state = STATE_LEN_MSB -> StepLenMsb(m, b)
      [] m.dev.state = STATE_DATA -> StepData(m, b)
      [] m.dev.state = STATE_END -> StepEnd(m, b)
      [] OTHER -> SetState(m, STATE_START)

-----------------------------------------------------------------------------
(* update(): drain the UART, the idle check, then the console passthrough *)

\* one turn of the loop of update(): b = read(1); _last_action = now;
\* _receive_and_parse(b), for the i-th byte waiting; after an exception no
\* further byte is read
ReadOne(m, bytes, i) ==
    IF m.err # "none" THEN m
    ELSE [ReceiveAndParse(m, bytes[i]) EXCEPT !.nread = i]

\* while available: the bytes lo..hi in order (split in halves to keep the
\* evaluation shallow)
RECURSIVE DrainRange(_, _, _, _)
DrainRange(m, bytes, lo, hi) ==
    IF lo > hi \/ m.err # "none" THEN m
    ELSE IF lo = hi THEN ReadOne(m, bytes, lo)
    ELSE LET mid == (lo + hi) \div 2 IN
         DrainRange(DrainRange(m, bytes, lo, mid), bytes, mid + 1, hi)

Drain(m, bytes) == DrainRange(m, bytes, 1, Len(bytes))

\* the idle test at the end of update(), on the time since the last read
IdleExpired(d, idl) == d.state # STATE_START /\ idl > TIMEOUT_MS

\* the last loop of update(): every byte waiting in the console is read,
\* one at a time, and each but b"\r" is written to the UART by a
\* uart.write() of its own; an exception raised earlier in update() leaves
\* the loop unreached
RECURSIVE ConsolePassthrough(_, _)
ConsolePassthrough(m, cons) ==
    IF cons = <<>> \/ m.err # "none" THEN m
    ELSE ConsolePassthrough(
            IF Head(cons) # CARRIAGE_RETURN
            THEN [m EXCEPT !.tx = Append(@, <<Head(cons)>>)]
            ELSE m,
            Tail(cons))

\* update() without the assignment of _last_action at each read: the idle
\* test sees the time since before the call
UpdateResultStaleClock(d, idl, bytes, cons) ==
    LET m == Drain(Machine(d), bytes)
        expired == m.err = "none" /\ IdleExpired(m.dev, idl)
        m1 == IF expired
              THEN [m EXCEPT !.dev = ResetReceiveStatemachine(@)]
              ELSE m
    IN  [run |-> ConsolePassthrough(m1, cons),
         idle |-> IF expired THEN 0 ELSE idl,
         reset |-> expired,
         console |-> IF m.err = "none" THEN <<>> ELSE cons]

\* update() on the decoder fields d, idl ms after _last_action, with `bytes`
\* in the UART and `cons` in the console: the run, the new idle time,
\* whether the idle reset fired and what is left in the console
UpdateResult(d, idl, bytes, cons) ==
    LET m == Drain(Machine(d), bytes)
        idl1 == IF m.nread > 0 THEN 0 ELSE idl
        expired == m.err = "none" /\ IdleExpired(m.dev, idl1)
        m1 == IF expired
              THEN [m EXCEPT !.dev = ResetReceiveStatemachine(@)]
              ELSE m
    IN  [run |-> ConsolePassthrough(m1, cons),
         idle |-> IF expired THEN 0 ELSE idl1,
         reset |-> expired,
         console |-> IF m.err = "none" THEN <<>> ELSE cons]

-----------------------------------------------------------------------------
(* The host: the messages it puts on the line *)

\* a well-formed frame of the wire format _receive_and_parse consumes
Frame(l, p) ==
    <<MSG_STARTMARK, l, Len(p) % 256, Len(p) \div 256>> \o p
        \o <<MSG_ENDMARK>>

\* a frame whose end mark arrives as another byte
Corrupt(f) == [f EXCEPT ![Len(f)] = 0]

PatternBytes == <<0, 126, 231, 255, 16>>
Pattern(n) == [i \in 1..n |-> PatternBytes[((i - 1) % Len(PatternBytes)) + 1]]

ShortPayloads == {<<>>, <<0, 16, 32>>, <<0, 255>>, <<126, 231, 126>>}
LongPayloads ==
    {Pattern(n) : n \in {MAX_CHANNELS, MAX_CHANNELS + 1, MaxPayload}}
\* a payload whose only byte is the one at position 0
SinglePayloads == {<<9>>}
Payloads == ShortPayloads \cup LongPayloads \cup SinglePayloads

RequestLabels == {LABEL_ESTA_ID_REQUEST, LABEL_DEVICE_ID_REQUEST,
                  LABEL_SERIAL_NUMBER_REQUEST, LABEL_WIDGET_PARAMETER_REQUEST,
                  LABEL_WIDGET_PARAMETER_EXTENDED_REQUEST}
SecondaryLabels == LABEL_DMX_DATA2..(LABEL_DMX_DATA2 + 3)
UnknownLabels == {LABEL_DMX_DATA2 - 1}

DmxFrames == {Frame(LABEL_DMX_DATA, p) : p \in ShortPayloads}
LongDmxFrames ==
    {Frame(LABEL_DMX_DATA, p) : p \in LongPayloads \cup SinglePayloads}
RequestFrames ==
    {Frame(l, <<>>) : l \in RequestLabels}
        \cup {Frame(LABEL_ESTA_ID_REQUEST, <<1, 2>>)}
OtherFrames ==
    {Frame(l, <<9>>) : l \in UnknownLabels}
        \cup {Frame(l, <<0, 255>>) : l \in SecondaryLabels}
WellFormed == DmxFrames \cup RequestFrames \cup OtherFrames

CorruptFrames ==
    {Corrupt(Frame(LABEL_ESTA_ID_REQUEST, <<>>)),
     Corrupt(Frame(LABEL_DMX_DATA, <<0, 16, 32>>))}
FollowUps ==
    {Frame(LABEL_DMX_DATA, <<126, 231, 126>>),
     Frame(LABEL_DEVICE_ID_REQUEST, <<>>)}
CorruptThenGood == {c \o f : c \in CorruptFrames, f \in FollowUps}
GoodThenGood ==
    {Frame(LABEL_ESTA_ID_REQUEST, <<>>) \o Frame(LABEL_DEVICE_ID_REQUEST, <<>>),
     Frame(LABEL_WIDGET_PARAMETER_EXTENDED_REQUEST, <<>>)
        \o Frame(LABEL_DMX_DATA, <<0, 255>>)}
Garbage == {<<0>>, <<231, 6, 0>>}

\* what the host sends under Spec
Messages ==
    WellFormed \cup CorruptFrames \cup CorruptThenGood \cup GoodThenGood
        \cup Garbage

\* what the host sends under SpecLong: DMX frames up to MaxPayload bytes and
\* frames that leave data behind in the buffer
LongMessages ==
    DmxFrames \cup LongDmxFrames
        \cup {Frame(LABEL_ESTA_ID_REQUEST, <<1, 2>>),
              Frame(LABEL_DMX_DATA2 - 1, <<9>>)}

\* what the encoder is given under SpecEnc
EncLabels == {0, LABEL_DMX_DATA, LABEL_ESTA_ID_REQUEST, LABEL_DMX_DATA2 - 1,
              LABEL_DMX_DATA2}
EncPayloads == {Pattern(n) : n \in {0, 1, 3, 255, 256, MaxPayload}}

NoEnc == [label |-> LABEL_UNDEFINED, data |-> <<>>]

\* what the user types at the console: b"a\r~", a letter, the byte that is
\* not passed on and the value of the start mark
ConsoleInputs == {<<97, CARRIAGE_RETURN, MSG_STARTMARK>>}

-----------------------------------------------------------------------------
(* Specification *)

\* the constructor calls: every profile with universes_out left to the
\* profile or given, debug left at its default; and the call of main.py,
\* debug = True with the profile and universes_out left at their defaults
Constructions ==
    UNION {{[mode |-> m, universes_out |-> u, debug |-> FALSE] :
                u \in {m.UNIVERSE_OUT} \cup (1..MaxUniversesOut)} :
            m \in Modes}
        \cup {[mode |-> DEVICE_EMULATED_ULTRA_DMX_MICRO,
                universes_out |-> DEVICE_EMULATED_ULTRA_DMX_MICRO.UNIVERSE_OUT,
                debug |-> TRUE]}

Init ==
    /\ \E c \in Constructions :
        /\ mode = c.mode
        /\ universes_out = c.universes_out
        /\ debug = c.debug
    /\ dmx = InitDmx
    /\ idle = 0
    /\ crashed = "none"
    /\ rxq = <<>>
    /\ console = <<>>
    /\ tx = <<>>
    /\ calls = <<>>
    /\ wire = <<>>
    /\ msg = <<>>
    /\ snap = InitDmx
    /\ intact = TRUE
    /\ split = FALSE
    /\ sent = 0
    /\ enc = NoEnc

\* the host starts a message once the line and the UART buffer are empty
Send(f) ==
    /\ crashed = "none"
    /\ sent < MaxMessages
    /\ wire = <<>>
    /\ rxq = <<>>
    /\ sent' = sent + 1
    /\ wire' = f
    /\ msg' = f
    /\ snap' = dmx
    /\ intact' = TRUE
    /\ split' = FALSE
    /\ tx' = <<>>
    /\ calls' = <<>>
    /\ UNCHANGED <<mode, universes_out, debug, dmx, idle, crashed, rxq,
                   console, enc>>

\* the next k bytes of the message reach the empty UART receive buffer: one
\* byte, or all that is left
Deliver(k) ==
    /\ crashed = "none"
    /\ rxq = <<>>
    /\ k \in 1..Len(wire)
    /\ k = Len(wire) \/ (k = 1 /\ Len(msg) - Len(wire) < MaxSplitPos)
    /\ rxq' = rxq \o SubSeq(wire, 1, k)
    /\ wire' = SubSeq(wire, k + 1, Len(wire))
    /\ split' = (split \/ k < Len(wire))
    /\ UNCHANGED <<mode, universes_out, debug, dmx, idle, crashed, console,
                   tx, calls, msg, snap, intact, sent, enc>>

\* all bytes of the message still on the line but the last n reach the empty
\* UART receive buffer
DeliverAllBut(n) ==
    /\ crashed = "none"
    /\ rxq = <<>>
    /\ n < Len(wire)
    /\ rxq' = SubSeq(wire, 1, Len(wire) - n)
    /\ wire' = SubSeq(wire, Len(wire) - n + 1, Len(wire))
    /\ split' = (split \/ n > 0)
    /\ UNCHANGED <<mode, universes_out, debug, dmx, idle, crashed, console,
                   tx, calls, msg, snap, intact, sent, enc>>

\* TickMs pass while a frame is pending and nothing waits in the UART:
\* update() compares the time only when the state is not STATE_START, and
\* sets _last_action at every read, so other time is never compared; beyond
\* the threshold more waiting changes no comparison
Tick ==
    /\ crashed = "none"
    /\ rxq = <<>>
    /\ dmx.state # STATE_START
    /\ idle <= TIMEOUT_MS
    /\ idle' = idle + TickMs
    /\ UNCHANGED <<mode, universes_out, debug, dmx, crashed, rxq, console,
                   tx, calls, wire, msg, snap, intact, split, sent, enc>>

\* the user types s at the empty console, once, before the host sends its
\* first message: the bytes wait until the next update(), which may be one
\* that parses bytes of that message
Type(s) ==
    /\ crashed = "none"
    /\ sent = 0
    /\ console = <<>>
    /\ tx = <<>>
    /\ console' = s
    /\ UNCHANGED <<mode, universes_out, debug, dmx, idle, crashed, rxq, tx,
                   calls, wire, msg, snap, intact, split, sent, enc>>

\* one call of update() by the main loop; an exception ends the program
Update ==
    /\ crashed = "none"
    /\ LET r == UpdateResult(dmx, idle, rxq, console) IN
        /\ dmx' = r.run.dev
        /\ idle' = r.idle
        /\ crashed' = r.run.err
        /\ rxq' = SubSeq(rxq, r.run.nread + 1, Len(rxq))
        /\ console' = r.console
        /\ tx' = tx \o r.run.tx
        /\ calls' = calls \o r.run.calls
        /\ intact' = (intact /\ ~(rxq = <<>> /\ idle > TIMEOUT_MS))
    /\ UNCHANGED <<mode, universes_out, debug, wire, msg, snap, split, sent,
                   enc>>

Next ==
    \/ \E f \in Messages : Send(f)
    \/ \E k \in 1..Len(wire) : Deliver(k)
    \/ \E s \in ConsoleInputs : Type(s)
    \/ Tick
    \/ Update

Spec == Init /\ [][Next]_vars

\* long frames, delivered whole or up to their last MaxTail bytes
NextLong ==
    \/ \E f \in LongMessages : Send(f)
    \/ \E n \in 0..MaxTail : DeliverAllBut(n)
    \/ Update

SpecLong == Init /\ [][NextLong]_vars

\* _send_message is handed (l, p) and writes the framed message
Encode(l, p) ==
    /\ crashed = "none"
    /\ enc = NoEnc
    /\ enc' = [label |-> l, data |-> p]
    /\ LET r == SendMessage(Machine(dmx), l, p) IN
        /\ tx' = r.tx
        /\ crashed' = r.err
    /\ UNCHANGED <<mode, universes_out, debug, dmx, idle, rxq, console,
                   calls, wire, msg, snap, intact, split, sent>>

\* the written message travels to a decoder whose parser is in STATE_START
Loop ==
    /\ crashed = "none"
    /\ enc # NoEnc
    /\ sent = 0
    /\ tx # <<>>
    /\ Send(tx[1])

NextEnc ==
    \/ \E l \in EncLabels, p \in EncPayloads : Encode(l, p)
    \/ Loop
    \/ \E k \in {Len(wire)} : Deliver(k)
    \/ Update

SpecEnc == Init /\ [][NextEnc]_vars

-----------------------------------------------------------------------------
(* Properties *)

Min(a, b) == IF a <= b THEN a ELSE b

\* the messages among the uart.write() calls: _send_message writes at least
\* five bytes in one call, the console passthrough one byte per call
RECURSIVE WrittenMessages(_)
WrittenMessages(t) ==
    IF t = <<>> THEN <<>>
    ELSE IF Len(Head(t)) > 1 THEN <<Head(t)>> \o WrittenMessages(Tail(t))
    ELSE WrittenMessages(Tail(t))

\* the replies the decoder has written since the host began its message
Replies == WrittenMessages(tx)

\* every byte of msg has been parsed by update() calls, none of which found
\* the line silent for longer than the threshold
Delivered ==
    /\ msg # <<>>
    /\ wire = <<>>
    /\ rxq = <<>>
    /\ intact
    /\ crashed = "none"

\* the parser fields at their reset values
FullyReset(d) ==
    /\ d.state = STATE_START
    /\ d.label = LABEL_UNDEFINED
    /\ d.msg_length = 0
    /\ d.buffer_data_index = 0
    /\ d.buffer_data = ZeroBuffer

\* the buffer a DMX frame with payload p must leave: payload position i + 1
\* at index i for i < min(len(p) - 1, 512), zero elsewhere
ExpectedData(p) ==
    [i \in 0..(MAX_CHANNELS - 1) |->
        IF i < Min(Len(p) - 1, MAX_CHANNELS) THEN p[i + 2] ELSE 0]

\* C1: on the single-universe profile a label-6 frame with a payload p of
\* 1..600 bytes, parsed from STATE_START after earlier messages, invokes the
\* callback once with universe 0 and the buffer holding p[1:] (at most 512
\* bytes) followed by zeros: payload position 0 is not stored and nothing
\* of an earlier frame remains.
C1_DmxFrameFillsBuffer ==
    \A p \in Payloads :
        (/\ Len(p) >= 1
         /\ msg = Frame(LABEL_DMX_DATA, p)
         /\ mode = DEVICE_EMULATED_ULTRA_DMX_MICRO
         /\ snap.state = STATE_START
         /\ Delivered)
        => calls = <<[universe |-> 0, data |-> ExpectedData(p)]>>

\* a 600-byte DMX frame was dispatched over a buffer an earlier frame had
\* written to
C1_Witness ==
    /\ msg = Frame(LABEL_DMX_DATA, Pattern(MaxPayload))
    /\ mode = DEVICE_EMULATED_ULTRA_DMX_MICRO
    /\ sent = 2
    /\ snap.state = STATE_START
    /\ snap.buffer_data # ZeroBuffer
    /\ Delivered
    /\ Len(calls) = 1

\* C2: a frame whose last byte is not the end mark is discarded: once it is
\* parsed nothing was written, nothing was called and the state is
\* STATE_START.
C2_BadEndReturnsToStart ==
    (msg \in CorruptFrames /\ snap.state = STATE_START /\ Delivered)
    => (dmx.state = STATE_START /\ Replies = <<>> /\ calls = <<>>)

\* what a freshly reset parser writes and calls for the bytes f
Fresh(f) == UpdateResult(InitDmx, 0, f, <<>>).run

\* C3: a frame with a wrong end byte followed at once by a well-formed frame
\* f: the first is never dispatched and f is dispatched as by a freshly
\* reset parser (same label, replies, callbacks and buffer).
C3_CorruptFrameDoesNotLeak ==
    \A c \in CorruptFrames, f \in FollowUps :
        (msg = c \o f /\ snap.state = STATE_START /\ Delivered)
        => (/\ Replies = Fresh(f).tx
            /\ calls = Fresh(f).calls
            /\ dmx.label = Fresh(f).dev.label
            /\ dmx.state = STATE_START)

\* C4: no byte fed to the parser raises an error, under any profile.
C4_NoByteRaises == crashed = "none"

\* C5: an update() call with the parser mid-frame and more than the threshold
\* elapsed since the last byte leaves the parser fully reset: state Start,
\* label undefined, length 0, write index 0, all 512 buffer bytes zero.
C5_AnyUpdateAfterSilenceResets ==
    [][(Update /\ dmx.state # STATE_START /\ idle > TIMEOUT_MS)
        => FullyReset(dmx')]_vars

\* the case of C5 in which the reset does happen: an update() call that finds
\* no byte waiting, with the parser mid-frame and more than the threshold
\* elapsed since the last byte, leaves the parser fully reset.
SilentUpdateResets ==
    [][(Update /\ dmx.state # STATE_START /\ idle > TIMEOUT_MS /\ rxq = <<>>)
        => FullyReset(dmx')]_vars

\* an update() has found the line silent beyond the threshold in the middle
\* of a message whose predecessor left data in the buffer, and the parser is
\* reset
SilentUpdateWitness ==
    /\ ~intact
    /\ sent = 2
    /\ snap.buffer_data # ZeroBuffer
    /\ FullyReset(dmx)
    /\ idle = 0

\* C6: the ESTA-ID and device-ID replies carry the id low byte first, then
\* the name; on the single-universe profile the ESTA-ID request is answered
\* by exactly [0x7E, 77, 8, 0, 0x6B, 0x6A, "DMXUSB", 0xE7].
C6_IdLowByteFirst ==
    /\ (msg = Frame(LABEL_ESTA_ID_REQUEST, <<>>) /\ snap.state = STATE_START
            /\ Delivered)
        => /\ Replies = <<Frame(LABEL_ESTA_ID_REQUEST,
                                <<mode.ESTA_ID % 256, mode.ESTA_ID \div 256>>
                                    \o NAME_DMXUSB)>>
           /\ mode = DEVICE_EMULATED_ULTRA_DMX_MICRO
                => Replies = <<<<126, 77, 8, 0, 107, 106, 68, 77, 88, 85, 83,
                                 66, 231>>>>
    /\ (msg = Frame(LABEL_DEVICE_ID_REQUEST, <<>>) /\ snap.state = STATE_START
            /\ Delivered)
        => Replies = <<Frame(LABEL_DEVICE_ID_REQUEST,
                             <<mode.DEVICE_ID % 256, mode.DEVICE_ID \div 256>>
                                 \o mode.NAME)>>

\* C7: the encoder emits [0x7E, label, len mod 256, len div 256, payload,
\* 0xE7]: the two length bytes decode to exactly len(payload).
C7_EncoderLength ==
    (enc # NoEnc /\ sent = 0 /\ crashed = "none")
    => tx = <<Frame(enc.label, enc.data)>>

\* C8: the encoder's bytes for (label, payload), fed to a parser in Start,
\* are consumed exactly and reach dispatch with the same label and a decoded
\* length of len(payload), ending in Start.
C8_RoundTrip ==
    (enc # NoEnc /\ sent = 1 /\ wire = <<>>
        /\ (rxq = <<>> \/ crashed # "none"))
    => (/\ crashed = "none"
        /\ dmx.state = STATE_START
        /\ dmx.label = enc.label
        /\ dmx.msg_length = Len(enc.data))

NoStartMark(s) == \A i \in 1..Len(s) : s[i] # MSG_STARTMARK

\* C9: from STATE_START, while the bytes received hold no start mark the
\* state stays STATE_START, nothing is written and nothing is called.
C9_NoStartMarkNoDispatch ==
    (msg # <<>> /\ NoStartMark(msg) /\ snap.state = STATE_START)
    => (dmx.state = STATE_START /\ Replies = <<>> /\ calls = <<>>)

\* three bytes without a start mark (an end mark and a label value among
\* them) were parsed after an earlier message
C9_Witness ==
    /\ msg = <<231, 6, 0>>
    /\ sent = 2
    /\ snap.state = STATE_START
    /\ snap.label # LABEL_UNDEFINED
    /\ wire = <<>>
    /\ rxq = <<>>

\* update() once, with all of msg waiting, on the parser fields of snap
Whole == UpdateResult(snap, 0, msg, <<>>).run

\* C10: however the bytes of a well-formed frame are split over update()
\* calls, what is written and called and the parser fields and buffer at the
\* end are those of a single update() that finds the whole frame waiting.
C10_ChunkingIndependent ==
    (/\ msg \in WellFormed
     /\ intact
     /\ (wire = <<>> /\ rxq = <<>>) \/ crashed # "none")
    => (/\ dmx = Whole.dev
        /\ Replies = Whole.tx
        /\ calls = Whole.calls
        /\ crashed = Whole.err)

\* a DMX frame that reached the UART in pieces was parsed by several
\* update() calls and dispatched
C10_Witness ==
    /\ msg = Frame(LABEL_DMX_DATA, <<0, 16, 32>>)
    /\ split
    /\ Delivered
    /\ Len(calls) > 0
    /\ sent = 2
    /\ snap.buffer_data # ZeroBuffer

-----------------------------------------------------------------------------
(* Properties of the dispatcher *)

\* every byte of msg has been handed to update(), which parsed it or raised
Fed ==
    /\ msg # <<>>
    /\ wire = <<>>
    /\ (rxq = <<>> \/ crashed # "none")
    /\ intact

\* the universe arguments of the callbacks, in call order
CallUniverses == [i \in 1..Len(calls) |-> calls[i].universe]

\* C11: on the multi-universe profile with universes_out = U, a frame with
\* label 100 + N, 0 <= N < U, calls back exactly once, with universe N.
C11_SecondaryLabelRoutesToUniverse ==
    \A n \in 0..(universes_out - 1) :
        (/\ mode = DEVICE_DMXUSB
         /\ msg = Frame(LABEL_DMX_DATA2 + n, <<0, 255>>)
         /\ snap.state = STATE_START
         /\ Fed)
        => CallUniverses = <<n>>

\* C12: on the single-universe profile a frame with label 6, or with a label
\* of the secondary family the range test accepts (100 up to
\* 100 + universes_out - 1), calls back exactly once, with universe 0.
C12_SingleUniverseRoutesToZero ==
    \A f \in DmxFrames \cup
             {Frame(l, <<0, 255>>) :
                 l \in LABEL_DMX_DATA2..(LABEL_DMX_DATA2 + universes_out - 1)} :
        (/\ mode = DEVICE_EMULATED_ULTRA_DMX_MICRO
         /\ msg = f
         /\ snap.state = STATE_START
         /\ Fed)
        => CallUniverses = <<0>>

\* C13: on the dual-universe profile a frame with label 6 calls back twice,
\* universe 0 then universe 1; label 100 once with universe 0; label 101
\* once with universe 1.
C13_DualUniverseRouting ==
    (/\ mode = DEVICE_EMULATED_DMXKING_UltraDMXPro
     /\ snap.state = STATE_START
     /\ Fed)
    => /\ msg \in DmxFrames => CallUniverses = <<0, 1>>
       /\ msg = Frame(LABEL_DMX_DATA2, <<0, 255>>) => CallUniverses = <<0>>
       /\ msg = Frame(LABEL_DMX_DATA2 + 1, <<0, 255>>)
            => CallUniverses = <<1>>

\* the length a frame declares in its two length bytes
DeclaredLength(f) == f[3] + 256 * f[4]

\* C14: for every profile, universes_out and label, a well-formed frame
\* completes, and the parser zero-filled the buffer and reset the write
\* index at the label byte (the index then counts this frame's payload only)
\* if and only if the dispatcher invoked the callback at least once.
C14_ParserDispatcherSymmetry ==
    (/\ msg \in WellFormed
     /\ snap.state = STATE_START
     /\ snap.buffer_data_index > 0
     /\ Fed)
    => /\ crashed = "none"
       /\ (dmx.buffer_data_index = DeclaredLength(msg)) <=> (calls # <<>>)

\* the label bytes of the messages written, in write order
TxLabels == [i \in 1..Len(Replies) |-> Replies[i][2]]

\* C15: a completed frame with one of the five request labels makes the
\* decoder write exactly one message, with the label of the request, and call
\* nothing; a completed frame with any other label writes nothing; requests
\* completed within one message are answered in the order they completed.
C15_OneReplyPerRequest ==
    (snap.state = STATE_START /\ Fed)
    => /\ \A f \in WellFormed :
            msg = f =>
                IF f[2] \in RequestLabels
                THEN TxLabels = <<f[2]>> /\ calls = <<>>
                ELSE Replies = <<>>
       /\ msg = Frame(LABEL_ESTA_ID_REQUEST, <<>>)
                    \o Frame(LABEL_DEVICE_ID_REQUEST, <<>>)
            => /\ TxLabels = <<LABEL_ESTA_ID_REQUEST, LABEL_DEVICE_ID_REQUEST>>
               /\ calls = <<>>
       /\ msg = Frame(LABEL_WIDGET_PARAMETER_EXTENDED_REQUEST, <<>>)
                    \o Frame(LABEL_DMX_DATA, <<0, 255>>)
            => TxLabels = <<LABEL_WIDGET_PARAMETER_EXTENDED_REQUEST>>

\* two requests were completed by one update() call, after an earlier
\* message, and both were answered
C15_Witness ==
    /\ msg = Frame(LABEL_ESTA_ID_REQUEST, <<>>)
                \o Frame(LABEL_DEVICE_ID_REQUEST, <<>>)
    /\ ~split
    /\ sent = 2
    /\ snap.state = STATE_START
    /\ snap.label # LABEL_UNDEFINED
    /\ Fed
    /\ Len(Replies) = 2

-----------------------------------------------------------------------------
(* Properties of the parser fields *)

\* C16: whenever the parser state is Start the pending fields are at their
\* reset values: label undefined, message length 0, write index 0.
C16_StartMeansFieldsReset ==
    dmx.state = STATE_START
    => /\ dmx.label = LABEL_UNDEFINED
       /\ dmx.msg_length = 0
       /\ dmx.buffer_data_index = 0

\* C17: on the multi-universe profile with universes_out = U a frame with
\* label 6 calls back exactly U times, for the universes 0, 1, ..., U - 1 in
\* ascending order, each call with the same buffer contents (the payload
\* from position 1 on, then zeros).
C17_PrimaryLabelFansOut ==
    \A p \in ShortPayloads :
        (/\ mode = DEVICE_DMXUSB
         /\ msg = Frame(LABEL_DMX_DATA, p)
         /\ snap.state = STATE_START
         /\ Fed)
        => calls = [i \in 1..universes_out |->
                       [universe |-> i - 1, data |-> ExpectedData(p)]]

\* a DMX frame was dispatched to three universes over a buffer an earlier
\* frame had written to
C17_Witness ==
    /\ mode = DEVICE_DMXUSB
    /\ universes_out = 3
    /\ msg = Frame(LABEL_DMX_DATA, <<0, 16, 32>>)
    /\ sent = 2
    /\ snap.state = STATE_START
    /\ snap.buffer_data # ZeroBuffer
    /\ Fed
    /\ Len(calls) = 3

\* how many bytes of msg update() has parsed, when none waits in the UART
Consumed == Len(msg) - Len(wire)

\* C18: for a frame with declared length L > 0 the parser is in Data while
\* fewer than L payload bytes are parsed and enters End on the L-th, whatever
\* L is relative to the buffer size; the write index never passes 513 (so no
\* write targets a slot beyond 511), the buffer keeps its 512 slots, and the
\* payload bytes of a DMX frame above position 512 are counted, not stored.
C18_LengthCountedNotStored ==
    (/\ msg \in LongMessages
     /\ DeclaredLength(msg) > 0
     /\ snap.state = STATE_START
     /\ rxq = <<>>
     /\ crashed = "none")
    => LET L == DeclaredLength(msg) IN
       /\ (4 <= Consumed /\ Consumed < 4 + L)
            => /\ dmx.state = STATE_DATA
               /\ dmx.data_rest_count = 4 + L - Consumed
       /\ Consumed = 4 + L
            => dmx.state = STATE_END /\ dmx.data_rest_count = 0
       /\ Consumed = 5 + L => dmx.state = STATE_START
       /\ dmx.buffer_data_index <= MAX_CHANNELS + 1
       /\ DOMAIN dmx.buffer_data = 0..(MAX_CHANNELS - 1)
       /\ (msg[2] = LABEL_DMX_DATA /\ Consumed >= 4 + L)
            => /\ dmx.buffer_data_index = Min(L, MAX_CHANNELS + 1)
               /\ dmx.buffer_data =
                    ExpectedData(SubSeq(msg, 5, 4 + L))

\* the last payload byte of a frame longer than the buffer was parsed after
\* an earlier frame: the parser is in End with the write index at its limit
C18_Witness ==
    /\ msg = Frame(LABEL_DMX_DATA, Pattern(MaxPayload))
    /\ sent = 2
    /\ snap.state = STATE_START
    /\ Len(wire) = 1
    /\ rxq = <<>>
    /\ dmx.state = STATE_END
    /\ dmx.buffer_data_index = MAX_CHANNELS + 1

\* C19: an update() call that finds the parser mid-frame, more than the
\* threshold elapsed since the last byte and new bytes waiting discards the
\* pending frame before it parses them: the bytes are parsed, answered and
\* dispatched as by a freshly reset parser, never as a continuation.
C19_PostSilenceBytesStartAfresh ==
    [][(Update /\ dmx.state # STATE_START /\ idle > TIMEOUT_MS
            /\ rxq # <<>>)
        => /\ dmx' = Fresh(rxq).dev
           /\ Replies' = Replies \o Fresh(rxq).tx
           /\ calls' = calls \o Fresh(rxq).calls]_vars

\* C20: every callback passes a universe u with 0 <= u < universes_out, for
\* every profile and constructor-supplied universes_out, and universes_out
\* is the count the extended-widget-parameter reply reports.
C20_CallbackUniverseInRange ==
    /\ \A i \in 1..Len(calls) :
            0 <= calls[i].universe /\ calls[i].universe < universes_out
    /\ (/\ msg = Frame(LABEL_WIDGET_PARAMETER_EXTENDED_REQUEST, <<>>)
        /\ snap.state = STATE_START
        /\ Fed)
       => (Len(Replies) = 1 /\ Replies[1][5] = universes_out)

=============================================================================
